---- MODULE Spec2Model ----
(***************************************************************************)
(* A model of Datafiles/utils.py: the on-disk memoization decorator        *)
(* cached() with its FileDeps arguments, as used by the pipelines          *)
(* load_ground and load_addrm, and the functional-dependency checker       *)
(* check_fun_dep.                                                          *)
(*                                                                         *)
(* Spec      processes calling the cached pipelines on a shared cache      *)
(*           directory while the data files and the cache are changed      *)
(*           between calls.                                                *)
(* SpecFD    check_fun_dep applied to a table, key columns, tolerances     *)
(*           and a combiner.                                               *)
(* SpecDeps  a FileDeps constructed from paths and indexed by paths.       *)
(* SpecCombine  the combiners applied to the rows of one group.            *)
(* SpecLoad  the loading pipelines applied to the contents of the data     *)
(*           files.                                                        *)
(* SpecIndex the state index p and the state <<n, ml, tms>> converted      *)
(*           into each other.                                              *)
(***************************************************************************)
EXTENDS Integers, Sequences, FiniteSets, TLC

VARIABLES
    mtime,      \* os.path.getmtime of every changeable data file
    exists,     \* the changeable data files that exist
    store,      \* the cache directory: key -> entry file [kind, val]
    pc,         \* where each process is inside wrapper()
    call,       \* the locals of each process's current call
    out,        \* what the current call gave its caller
    obs,        \* history: what the current call observed and did
    first,      \* history: key -> result of the first successful call, while
                \* the entry has not been altered since
    lastCall,   \* history: the last call that returned a result
    target,     \* the cached function the processes call
    ncalls,     \* calls begun
    nenv,       \* changes made to the files and the cache from outside
    in_d,       \* check_fun_dep: the table, a sequence of rows
    in_cols,    \* check_fun_dep: the key columns
    in_tolers,  \* check_fun_dep: <<determined column, tolerance>> pairs
    in_combiner, \* check_fun_dep: the combiner
    fdpc,       \* check_fun_dep: "start", then "checked"
    result,     \* check_fun_dep: what the call returned or raised
    again,      \* check_fun_dep: what a second call, on the table the
                \* first returned, returned or raised
    in_paths,   \* FileDeps: the paths given to the constructor
    deps,       \* FileDeps: the object constructed
    lookup,     \* FileDeps: the last deps[path] and what it gave
    data,       \* the pipelines: file name -> the table load_table reads
    ldpc,       \* the pipelines: "start", then "loaded"
    ld_call,    \* the pipelines: the function called and its arguments
    sources,    \* the pipelines: the tables of load_ground and of
                \* load_addrm before check_fun_dep, their sources
                \* concatenated
    loaded,     \* the pipelines: what the call returned or raised
    ix_pc,      \* the state index: "start", then "decoded" or "encoded",
                \* then "done"
    ix_from,    \* the state index: "p" or "n_ml_tms", what the first
                \* call is given
    ix_p,       \* the state index: the index given or encoded
    ix_t,       \* the state index: <<n, ml, tms>> given or decoded
    ix_back     \* the state index: what the second call gave

cacheVars == <<mtime, exists, store, pc, call, out, obs, first, lastCall,
               target, ncalls, nenv>>

fdVars == <<in_d, in_cols, in_tolers, in_combiner, fdpc, result, again>>

depVars == <<in_paths, deps, lookup>>

loadVars == <<data, ldpc, ld_call, sources, loaded>>

ixVars == <<ix_pc, ix_from, ix_p, ix_t, ix_back>>

vars == <<cacheVars, fdVars, depVars, loadVars, ixVars>>

(***************************************************************************)
(* Bounds of the model.                                                    *)
(***************************************************************************)
MaxMtime == 2
MaxCalls == 3
MaxEnv == 2

Procs == {"p1", "p2"}

(***************************************************************************)
(* The cached pipelines: their default FileDeps and the files they read.   *)
(***************************************************************************)
Funcs == {"load_ground", "load_addrm"}

load_ground_files ==
    { "ground-sarah.txt", "imsrg-qdpt/ground.txt",
      "EOM_IMSRG_qd_attached.dat", "EOMIMSRG_up_to_16_attached.dat",
      "QD_CCSD_PA.dat", "QD_CCSD_PA_10_2_010-100.dat" }

load_addrm_files ==
    { "imsrg-qdpt/addrm.txt",
      "EOM_IMSRG_qd_attached.dat", "EOM_IMSRG_qd_removed.dat",
      "freq_sweep_N6_R10_attached.dat", "freq_sweep_N6_R10_removed.dat",
      "EOM-IMSRG_freq_sweep_6part_ml1_attached.dat",
      "EOM-IMSRG_freq_sweep_6part_ml1_removed.dat",
      "EOM_IMSRG_softened_attached.dat", "EOM_IMSRG_softened_removed.dat",
      "EOM_IMSRG_FEI_HAM_particle_attached.dat",
      "EOM_IMSRG_FEI_HAM_particle_removed.dat",
      "EOMIMSRG_up_to_16_attached.dat", "EOMIMSRG_up_to_16_removed.dat",
      "EOM_particle_attached.dat", "EOM_particle_removed.dat",
      "missing_EOM_particle_attached.dat",
      "EOM_magnus_quads_attached.dat", "EOM_magnus_quads_removed.dat",
      "EOM_CCSD_qd_attached.dat", "EOM_CCSD_qd_removed.dat" }

\* A read is <<path, through>>: through = TRUE for load_table(files[path]),
\* FALSE for load_table(path).  In the order of the source.
load_ground_reads ==
    << <<"ground-sarah.txt", TRUE>>,
       <<"imsrg-qdpt/ground.txt", TRUE>>,
       <<"EOM_IMSRG_qd_attached.dat", TRUE>>,
       <<"EOMIMSRG_up_to_16_attached.dat", TRUE>>,
       <<"QD_CCSD_PA.dat", TRUE>>,
       <<"QD_CCSD_PA_10_2_010-100.dat", TRUE>> >>

load_addrm_reads ==
    << <<"imsrg-qdpt/addrm.txt", TRUE>>,
       <<"EOM_IMSRG_qd_attached.dat", TRUE>>,
       <<"EOM_IMSRG_qd_removed.dat", TRUE>>,
       <<"freq_sweep_N6_R10_attached.dat", TRUE>>,
       <<"freq_sweep_N6_R10_removed.dat", TRUE>>,
       <<"EOM-IMSRG_freq_sweep_6part_ml1_attached.dat", TRUE>>,
       <<"EOM-IMSRG_freq_sweep_6part_ml1_removed.dat", TRUE>>,
       <<"EOMIMSRG_up_to_16_attached.dat", TRUE>>,
       <<"EOMIMSRG_up_to_16_removed.dat", TRUE>>,
       <<"EOM_particle_attached.dat", TRUE>>,
       <<"EOM_particle_removed.dat", TRUE>>,
       <<"missing_EOM_particle_attached.dat", TRUE>>,
       <<"EOM_IMSRG_softened_attached.dat", TRUE>>,
       <<"EOM_IMSRG_softened_removed.dat", TRUE>>,
       <<"EOM_IMSRG_FEI_HAM_particle_attached.dat", TRUE>>,
       <<"EOM_IMSRG_FEI_HAM_particle_removed.dat", TRUE>>,
       <<"EOM_magnus_quads_attached.dat", TRUE>>,
       <<"EOM_magnus_quads_removed.dat", TRUE>>,
       <<"QD_CCSD_PA.dat", FALSE>>,
       <<"QD_CCSD_PA_10_2_010-100.dat", FALSE>>,
       <<"QD_CCSD_PR.dat", FALSE>>,
       <<"QD_CCSD_PR_10_2_010-100.dat", FALSE>> >>

DefaultFiles(fn) ==
    IF fn = "load_ground" THEN load_ground_files ELSE load_addrm_files

DefaultToler(fn) == IF fn = "load_ground" THEN "6e-4" ELSE "3e-7"

Reads(fn) == IF fn = "load_ground" THEN load_ground_reads ELSE load_addrm_reads

ReadPaths(fn) == { Reads(fn)[i][1] : i \in 1..Len(Reads(fn)) }

(***************************************************************************)
(* The file system.  The files of Changeable are the ones the environment  *)
(* modifies, removes and creates; every other file exists and keeps its    *)
(* modification time.                                                      *)
(***************************************************************************)
Changeable ==
    { "EOM_IMSRG_qd_attached.dat",   \* declared and read by both pipelines
      "EOM_CCSD_qd_attached.dat",    \* declared by load_addrm
      "QD_CCSD_PR.dat" }             \* read by load_addrm

FileExists(p) == p \notin Changeable \/ p \in exists

getmtime(p) == IF p \in Changeable THEN mtime[p] ELSE 1

(***************************************************************************)
(* FileDeps.  A FileDeps is the frozenset of its paths.                    *)
(***************************************************************************)
\* FileDeps.__init__: the paths given, as a frozenset.
FileDeps(paths) == { paths[i] : i \in 1..Len(paths) }

\* Mutant: a lookup that hands back any path.
FileDeps_getitem_unchecked(D, path) == [exc |-> "none", val |-> path]

\* FileDeps.__getitem__(path): the path, or ValueError when undeclared.
FileDeps_getitem(D, path) ==
    IF path \notin D
    THEN [exc |-> "ValueError", val |-> "none"]
    ELSE [exc |-> "none", val |-> path]

\* Mutant: a stat that answers for a file that does not exist.
FileDeps_hash_never_raises(D) == FALSE

\* os.path.getmtime raises FileNotFoundError (an OSError) inside _hash.
FileDeps_hash_raises(D) == \E path \in D : ~FileExists(path)

\* Mutant: a fingerprint of the paths alone.
FileDeps_hash_paths(D) == { <<path, 1>> : path \in D }

\* FileDeps._hash(): the (path, mtime) pairs of the declared paths.  The
\* list sorted by path is represented by the set of its pairs.
FileDeps_hash(D) == { <<path, getmtime(path)>> : path \in D }

(***************************************************************************)
(* cached(): the arguments of a call, the key, the entry files.            *)
(***************************************************************************)
\* What a caller passes: toler is left to its default, files is omitted or
\* given.  A given files is the default set again, or one that leaves out
\* a file the pipeline reads.
ExplicitFiles(fn) ==
    { DefaultFiles(fn), DefaultFiles(fn) \ {"EOM_IMSRG_qd_attached.dat"} }

CallArgs(fn) ==
    { [toler |-> "omitted", given |-> FALSE, paths |-> DefaultFiles(fn)] }
    \cup { [toler |-> "omitted", given |-> TRUE, paths |-> ps] :
             ps \in ExplicitFiles(fn) }

\* signature.bind of the arguments followed by apply_defaults().
bound_arguments(fn, a) ==
    [ toler |-> IF a.toler = "omitted" THEN DefaultToler(fn) ELSE a.toler,
      files |-> IF a.given THEN a.paths ELSE DefaultFiles(fn) ]

\* sanitize_json of the bound arguments: a FileDeps becomes its _hash().
sanitize_json(bound) ==
    [ toler |-> bound.toler, files |-> FileDeps_hash(bound.files) ]

\* The entry path: the function's name and the digest of (h0, arguments).
\* The digest is taken to be injective, so the key is what is digested.
CacheKey(fn, bound) == [ func |-> fn, args |-> sanitize_json(bound) ]

NoVal == [ func |-> "none", toler |-> "none", data |-> {} ]
NoKey == [ func |-> "none", args |-> [toler |-> "none", files |-> {}] ]
NoCall == [ fn |-> "none", toler |-> "none", files |-> {}, key |-> NoKey,
            res |-> NoVal ]
NoOut == [ kind |-> "none", exc |-> "none", val |-> NoVal ]
NoObs == [ seen |-> "none", ran |-> FALSE, wrote |-> FALSE,
           settled |-> FALSE, depChanged |-> FALSE, sameKey |-> FALSE ]
NoLast == [ fn |-> "none", toler |-> "none", files |-> {}, key |-> NoKey,
            deps |-> <<>> ]

\* The state of the entry file of a key:
\*   absent     no such file
\*   empty      a file of zero bytes (just opened with "wb")
\*   truncated  a prefix of a pickle
\*   garbage    bytes that are no pickle
\*   noperm     a file whose mode allows neither reading nor writing
\*   complete   the whole pickle of val
EntryKind(k) == IF k \in DOMAIN store THEN store[k].kind ELSE "absent"

PartialKinds == {"empty", "truncated"}
BadKinds == {"empty", "truncated", "garbage", "noperm"}

\* Mutant: a lookup that never finds the entry file.
LoadOutcomes_nohit(kind) == {"OSError"}

\* open(path, "rb") and load(f): "ok", or the exception raised.  An empty
\* file makes pickle.load raise EOFError; a truncated pickle raises
\* UnpicklingError, or EOFError when cut at a frame boundary; bytes that
\* are no pickle raise UnpicklingError or, depending on the bytes, another
\* exception.
LoadOutcomes(kind) ==
    CASE kind = "complete"  -> {"ok"}
      [] kind = "absent"    -> {"OSError"}
      [] kind = "noperm"    -> {"OSError"}
      [] kind = "empty"     -> {"EOFError"}
      [] kind = "truncated" -> {"UnpicklingError", "EOFError"}
      [] kind = "garbage"   -> {"UnpicklingError", "AttributeError"}

\* except (OSError, pickle.UnpicklingError): pass
Caught == {"OSError", "UnpicklingError"}

(***************************************************************************)
(* The wrapped pipelines, as far as the cache sees them: the files read    *)
(* and the result, which is determined by the arguments and by the         *)
(* versions (modification times) of the files read.                        *)
(***************************************************************************)
ReadFails(fn, files, i) ==
    \/ Reads(fn)[i][2] /\ FileDeps_getitem(files, Reads(fn)[i][1]).exc # "none"
    \/ ~FileExists(Reads(fn)[i][1])

Snapshot(fn) == { <<path, getmtime(path)>> : path \in ReadPaths(fn) }

func(fn, bound) ==
    LET bad == { i \in 1..Len(Reads(fn)) : ReadFails(fn, bound.files, i) }
    IN  IF bad = {}
        THEN [ kind |-> "return", exc |-> "none",
               val |-> [func |-> fn, toler |-> bound.toler,
                        data |-> Snapshot(fn)] ]
        ELSE LET i == CHOOSE j \in bad : \A l \in bad : j <= l
             IN  [ kind |-> "raise",
                   exc |-> IF Reads(fn)[i][2] /\
                              FileDeps_getitem(bound.files,
                                               Reads(fn)[i][1]).exc # "none"
                           THEN "ValueError" ELSE "FileNotFoundError",
                   val |-> NoVal ]

\* The modification times of the declared files, read off the file system
\* (<<>> for a file that does not exist).
DepState(files) ==
    [ path \in files \cap Changeable |->
        IF path \in exists THEN <<mtime[path]>> ELSE <<>> ]

AllIdle == \A p \in Procs : pc[p] = "idle"

NoneDone == \A p \in Procs : pc[p] # "done"

Drop(f, k) == [ x \in DOMAIN f \ {k} |-> f[x] ]

Put(f, k, v) == [ x \in DOMAIN f \cup {k} |-> IF x = k THEN v ELSE f[x] ]

(***************************************************************************)
(* cached.wrapper, one action per step another process can see.            *)
(***************************************************************************)
\* Lines 415-425: bind the arguments, derive the key (which stats every
\* declared file), open the entry file and load it; on a miss, call the
\* wrapped function.  Nothing of this writes, and the files do not change
\* while a call runs, so no other process can tell the steps apart.
Begin(p, fn, a) ==
    /\ pc[p] = "idle"
    /\ fn = target
    /\ NoneDone
    /\ ncalls < MaxCalls
    /\ ncalls' = ncalls + 1
    /\ LET bound == bound_arguments(fn, a)
           key   == CacheKey(fn, bound)
           kind  == EntryKind(key)
           r     == func(fn, bound)
       IN  IF FileDeps_hash_raises(bound.files)
           THEN /\ pc' = [pc EXCEPT ![p] = "done"]
                /\ call' = [call EXCEPT ![p] =
                              [NoCall EXCEPT !.fn = fn, !.toler = bound.toler,
                                             !.files = bound.files]]
                /\ out' = [out EXCEPT ![p] =
                             [NoOut EXCEPT !.kind = "raise",
                                           !.exc = "FileNotFoundError"]]
                /\ obs' = [obs EXCEPT ![p] = NoObs]
           ELSE \E o \in LoadOutcomes(kind) :
                LET hit  == o = "ok"
                    miss == o \in Caught
                IN
                /\ call' = [call EXCEPT ![p] =
                              [NoCall EXCEPT
                                 !.fn = fn, !.toler = bound.toler,
                                 !.files = bound.files, !.key = key,
                                 !.res = IF miss THEN r.val ELSE NoVal]]
                /\ obs' = [obs EXCEPT ![p] =
                             [NoObs EXCEPT
                                !.seen = kind,
                                !.ran = miss,
                                !.settled = key \in DOMAIN first,
                                !.depChanged =
                                    /\ lastCall.fn = fn
                                    /\ lastCall.toler = bound.toler
                                    /\ lastCall.files = bound.files
                                    /\ lastCall.deps # DepState(bound.files),
                                !.sameKey = (lastCall.key = key)]]
                /\ pc' = [pc EXCEPT ![p] =
                            IF miss /\ r.kind = "return"
                            THEN "computed" ELSE "done"]
                /\ out' = [out EXCEPT ![p] =
                             IF hit
                             THEN [NoOut EXCEPT !.kind = "return",
                                                !.val = store[key].val]
                             ELSE IF miss
                             THEN (IF r.kind = "return" THEN NoOut ELSE r)
                             ELSE [NoOut EXCEPT !.kind = "raise", !.exc = o]]
    /\ UNCHANGED <<mtime, exists, store, first, lastCall, target, nenv>>
    /\ UNCHANGED <<fdVars, depVars, loadVars, ixVars>>

\* Lines 426-427: os.makedirs(dir) and open(path, "wb"), which creates the
\* entry file or cuts it to zero bytes.
OpenWrite(p) ==
    /\ pc[p] = "computed"
    /\ NoneDone
    /\ IF EntryKind(call[p].key) = "noperm"
       THEN /\ pc' = [pc EXCEPT ![p] = "done"]
            /\ out' = [out EXCEPT ![p] =
                         [NoOut EXCEPT !.kind = "raise",
                                       !.exc = "PermissionError"]]
            /\ UNCHANGED <<store, obs, first>>
       ELSE /\ pc' = [pc EXCEPT ![p] = "opened"]
            /\ store' = Put(store, call[p].key,
                            [kind |-> "empty", val |-> NoVal])
            /\ obs' = [obs EXCEPT ![p].wrote = TRUE]
            /\ first' = Drop(first, call[p].key)
            /\ out' = out
    /\ UNCHANGED <<mtime, exists, call, lastCall, target, ncalls, nenv>>
    /\ UNCHANGED <<fdVars, depVars, loadVars, ixVars>>

\* Line 428: dump(result, f) fills the file's buffer, which is written out
\* whenever it is full: a prefix of the pickle is in the file.
Flush(p) ==
    /\ pc[p] = "opened"
    /\ NoneDone
    /\ EntryKind(call[p].key) = "empty"
    /\ store' = Put(store, call[p].key, [kind |-> "truncated", val |-> NoVal])
    /\ UNCHANGED <<mtime, exists, pc, call, out, obs, first, lastCall,
                   target, ncalls, nenv>>
    /\ UNCHANGED <<fdVars, depVars, loadVars, ixVars>>

\* Lines 428-429: the with block closes the file, which writes the rest of
\* the pickle, and the result is returned.
Close(p) ==
    /\ pc[p] = "opened"
    /\ NoneDone
    /\ pc' = [pc EXCEPT ![p] = "done"]
    /\ store' = Put(store, call[p].key,
                    [kind |-> "complete", val |-> call[p].res])
    /\ out' = [out EXCEPT ![p] =
                 [NoOut EXCEPT !.kind = "return", !.val = call[p].res]]
    /\ first' = IF call[p].key \in DOMAIN first THEN first
                ELSE Put(first, call[p].key, call[p].res)
    /\ UNCHANGED <<mtime, exists, call, obs, lastCall, target, ncalls, nenv>>
    /\ UNCHANGED <<fdVars, depVars, loadVars, ixVars>>

\* Line 428: dump(result, f) raises, because the result cannot be pickled
\* or the file cannot be written; the with block closes the file, which
\* stays as it is, and the exception reaches the caller.
DumpErrors == {"PicklingError", "OSError"}

DumpFails(p) ==
    /\ pc[p] = "opened"
    /\ NoneDone
    /\ \E e \in DumpErrors :
           out' = [out EXCEPT ![p] = [NoOut EXCEPT !.kind = "raise", !.exc = e]]
    /\ pc' = [pc EXCEPT ![p] = "done"]
    /\ UNCHANGED <<mtime, exists, store, call, obs, first, lastCall, target,
                   ncalls, nenv>>
    /\ UNCHANGED <<fdVars, depVars, loadVars, ixVars>>

\* The caller has the value or the exception; the process may call again.
\* A finished call returns before any other process takes a step.
Return(p) ==
    /\ pc[p] = "done"
    /\ pc' = [pc EXCEPT ![p] = "idle"]
    /\ lastCall' = IF out[p].kind = "return"
                   THEN [fn |-> call[p].fn, toler |-> call[p].toler,
                         files |-> call[p].files, key |-> call[p].key,
                         deps |-> DepState(call[p].files)]
                   ELSE lastCall
    /\ call' = [call EXCEPT ![p] = NoCall]
    /\ out' = [out EXCEPT ![p] = NoOut]
    /\ obs' = [obs EXCEPT ![p] = NoObs]
    /\ UNCHANGED <<mtime, exists, store, first, target, ncalls, nenv>>
    /\ UNCHANGED <<fdVars, depVars, loadVars, ixVars>>

(***************************************************************************)
(* The environment, between calls: FileDeps are existing, read-only files  *)
(* while a cached function runs.                                           *)
(***************************************************************************)
\* A data file is written (or created): it has another modification time.
Touch(path, m) ==
    /\ AllIdle
    /\ nenv < MaxEnv
    /\ path \notin exists \/ mtime[path] # m
    /\ mtime' = [mtime EXCEPT ![path] = m]
    /\ exists' = exists \cup {path}
    /\ nenv' = nenv + 1
    /\ UNCHANGED <<store, pc, call, out, obs, first, lastCall, target, ncalls>>
    /\ UNCHANGED <<fdVars, depVars, loadVars, ixVars>>

\* A data file is removed.
Remove(path) ==
    /\ AllIdle
    /\ nenv < MaxEnv
    /\ path \in exists
    /\ exists' = exists \ {path}
    /\ mtime' = [mtime EXCEPT ![path] = 1]
    /\ nenv' = nenv + 1
    /\ UNCHANGED <<store, pc, call, out, obs, first, lastCall, target, ncalls>>
    /\ UNCHANGED <<fdVars, depVars, loadVars, ixVars>>

\* A complete entry file is overwritten with other bytes, or its mode bits
\* are cleared.
Damage(k, kind) ==
    /\ AllIdle
    /\ nenv < MaxEnv
    /\ EntryKind(k) = "complete"
    /\ store' = Put(store, k, [kind |-> kind, val |-> NoVal])
    /\ first' = Drop(first, k)
    /\ nenv' = nenv + 1
    /\ UNCHANGED <<mtime, exists, pc, call, out, obs, lastCall, target, ncalls>>
    /\ UNCHANGED <<fdVars, depVars, loadVars, ixVars>>

\* An entry file is deleted.
Delete(k) ==
    /\ AllIdle
    /\ nenv < MaxEnv
    /\ k \in DOMAIN store
    /\ store' = Drop(store, k)
    /\ first' = Drop(first, k)
    /\ nenv' = nenv + 1
    /\ UNCHANGED <<mtime, exists, pc, call, out, obs, lastCall, target, ncalls>>
    /\ UNCHANGED <<fdVars, depVars, loadVars, ixVars>>

\* The parts of the state a specification does not use keep these values.
NoResult == [ kind |-> "none", exc |-> "none", table |-> <<>>,
              violations |-> <<>>, applied |-> 0 ]

NoLookup == [ path |-> "none", exc |-> "none", val |-> "none" ]

FDUnused ==
    /\ in_d = <<>>
    /\ in_cols = <<>>
    /\ in_tolers = <<>>
    /\ in_combiner = "None"
    /\ fdpc = "unused"
    /\ result = NoResult
    /\ again = NoResult

NoLoaded == [ kind |-> "none", exc |-> "none", table |-> <<>> ]

NoLdCall == [ fn |-> "none", with_priority |-> FALSE, toler |-> 0 ]

LoadUnused ==
    /\ data = <<>>
    /\ ldpc = "unused"
    /\ ld_call = NoLdCall
    /\ sources = [ ground |-> NoLoaded, addrm |-> NoLoaded ]
    /\ loaded = NoLoaded

NoBack == [ exc |-> "none", p |-> <<>>, t |-> <<>> ]

IndexUnused ==
    /\ ix_pc = "unused"
    /\ ix_from = "none"
    /\ ix_p = <<>>
    /\ ix_t = <<>>
    /\ ix_back = NoBack

DepsUnused ==
    /\ in_paths = <<>>
    /\ deps = {}
    /\ lookup = NoLookup

CacheUnused ==
    /\ mtime = [path \in Changeable |-> 1]
    /\ exists = Changeable
    /\ store = [k \in {} |-> [kind |-> "absent", val |-> NoVal]]
    /\ pc = [p \in Procs |-> "unused"]
    /\ call = [p \in Procs |-> NoCall]
    /\ out = [p \in Procs |-> NoOut]
    /\ obs = [p \in Procs |-> NoObs]
    /\ first = [k \in {} |-> NoVal]
    /\ lastCall = NoLast
    /\ target = "none"
    /\ ncalls = 0
    /\ nenv = 0

CacheInit ==
    /\ mtime = [path \in Changeable |-> 1]
    /\ exists = Changeable
    /\ store = [k \in {} |-> [kind |-> "absent", val |-> NoVal]]
    /\ pc = [p \in Procs |-> "idle"]
    /\ call = [p \in Procs |-> NoCall]
    /\ out = [p \in Procs |-> NoOut]
    /\ obs = [p \in Procs |-> NoObs]
    /\ first = [k \in {} |-> NoVal]
    /\ lastCall = NoLast
    /\ target \in Funcs
    /\ ncalls = 0
    /\ nenv = 0

Init ==
    CacheInit /\ FDUnused /\ DepsUnused /\ LoadUnused /\ IndexUnused

Next ==
    \/ \E p \in Procs, fn \in Funcs : \E a \in CallArgs(fn) : Begin(p, fn, a)
    \/ \E p \in Procs : OpenWrite(p)
    \/ \E p \in Procs : Flush(p)
    \/ \E p \in Procs : Close(p)
    \/ \E p \in Procs : DumpFails(p)
    \/ \E p \in Procs : Return(p)
    \/ \E path \in Changeable, m \in 1..MaxMtime : Touch(path, m)
    \/ \E path \in Changeable : Remove(path)
    \/ \E k \in DOMAIN store, kind \in {"garbage", "noperm"} : Damage(k, kind)
    \/ \E k \in DOMAIN store : Delete(k)

Spec == Init /\ [][Next]_vars

(***************************************************************************)
(* Properties of cached() and FileDeps, checked under Spec.                *)
(***************************************************************************)
Done(p) == pc[p] = "done"

\* C1: a call that begins after a call with the same key has returned
\* successfully, with the entry not altered since, returns the result that
\* first call stored and does not run the wrapped function (nor write).
C1_HitReturnsFirstResult ==
    \A p \in Procs :
        Done(p) /\ obs[p].settled =>
            /\ out[p].kind = "return"
            /\ call[p].key \in DOMAIN first
            /\ out[p].val = first[call[p].key]
            /\ ~obs[p].ran
            /\ ~obs[p].wrote

\* C1 witness: a later call has been served from the entry of a first one.
C1_Witness ==
    \E p \in Procs :
        Done(p) /\ obs[p].settled /\ out[p].kind = "return" /\ ~obs[p].ran

C3_Original ==
    /\ \A k \in DOMAIN store : store[k].kind \notin PartialKinds
    /\ \A p \in Procs : obs[p].seen \notin PartialKinds

\* C4 as claimed: a call that finds a bad entry file runs the wrapped
\* function, and either returns and stores its result or raises what the
\* wrapped function raised.
C4_Original ==
    \A p \in Procs :
        Done(p) /\ obs[p].seen \in BadKinds =>
            /\ obs[p].ran
            /\ out[p].kind = "return" =>
                    /\ EntryKind(call[p].key) = "complete"
                    /\ store[call[p].key].val = out[p].val
            /\ out[p].kind = "raise" =>
                    out[p] = func(call[p].fn, [toler |-> call[p].toler,
                                                files |-> call[p].files])

\* C5 as claimed: a result returned by a cached pipeline is the one
\* computed from the present versions of the files the pipeline reads.
C5_Original ==
    \A p \in Procs :
        Done(p) /\ out[p].kind = "return" =>
            out[p].val.data = Snapshot(call[p].fn)

\* C7: a call made while a declared file does not exist raises at the
\* fingerprint; it neither runs the wrapped function, nor returns a result,
\* nor writes an entry, also when entries of earlier calls exist.
C7_MissingFileRaises ==
    \A p \in Procs :
        Done(p) /\ (\E path \in call[p].files \cap Changeable :
                        path \notin exists) =>
            /\ out[p].kind = "raise"
            /\ out[p].exc = "FileNotFoundError"
            /\ ~obs[p].ran
            /\ ~obs[p].wrote
            /\ obs[p].seen = "none"

\* C7 witness: such a call, with a complete entry of an earlier call with
\* the same function and declared files in the cache.
C7_Witness ==
    \E p \in Procs :
        /\ Done(p)
        /\ \E path \in call[p].files \cap Changeable : path \notin exists
        /\ \E k \in DOMAIN store :
              /\ k.func = call[p].fn
              /\ { pm[1] : pm \in k.args.files } = call[p].files
              /\ store[k].kind = "complete"

(***************************************************************************)
(* FileDeps on its own: SpecDeps constructs a FileDeps from a tuple of     *)
(* paths and indexes it.                                                   *)
(***************************************************************************)
MaxPaths == 2

SomePaths == { "ground-sarah.txt", "imsrg-qdpt/ground.txt",
               "QD_CCSD_PA.dat", "QD_CCSD_PR.dat" }

PathTuples ==
    UNION { [1..n -> SomePaths] : n \in 0..MaxPaths }

DepsInit ==
    /\ in_paths \in PathTuples
    /\ deps = {}
    /\ lookup = [NoLookup EXCEPT !.path = "unbuilt"]

\* files = FileDeps(...)
Construct ==
    /\ lookup.path = "unbuilt"
    /\ deps' = FileDeps(in_paths)
    /\ lookup' = NoLookup
    /\ UNCHANGED in_paths
    /\ UNCHANGED <<cacheVars, fdVars, loadVars, ixVars>>

\* files[path]
GetItem(path) ==
    /\ lookup.path # "unbuilt"
    /\ lookup' = [ path |-> path,
                   exc |-> FileDeps_getitem(deps, path).exc,
                   val |-> FileDeps_getitem(deps, path).val ]
    /\ UNCHANGED <<in_paths, deps>>
    /\ UNCHANGED <<cacheVars, fdVars, loadVars, ixVars>>

DepsNext ==
    \/ Construct
    \/ \E path \in SomePaths : GetItem(path)

InitDeps ==
    CacheUnused /\ FDUnused /\ LoadUnused /\ DepsInit /\ IndexUnused

SpecDeps == InitDeps /\ [][DepsNext]_vars

Declared == { in_paths[i] : i \in 1..Len(in_paths) }

\* C6: deps[path] raises exactly when path is none of the paths the
\* FileDeps was constructed with, and gives the path itself otherwise.
C6_GetItemIffDeclared ==
    lookup.path \notin {"none", "unbuilt"} =>
        /\ lookup.exc # "none" <=> lookup.path \notin Declared
        /\ lookup.path \in Declared =>
               lookup.exc = "none" /\ lookup.val = lookup.path
        /\ lookup.path \notin Declared => lookup.exc = "ValueError"

\* C6 witnesses: a lookup of a declared path, after one of an undeclared.
C6_Witness ==
    /\ lookup.path \in Declared
    /\ lookup.val = lookup.path
    /\ Declared # SomePaths
    /\ Len(in_paths) = MaxPaths

(***************************************************************************)
(* check_fun_dep.  A table (DataFrame) is a sequence of rows; a row is a   *)
(* record of its index label idx and its cells.  The example of the        *)
(* docstring names the columns: key columns x, y and determined columns    *)
(* z, w.  Cells are integers; NaN is a value of its own.                   *)
(***************************************************************************)
MaxRows == 3

NaN == 0 - 1000

Cells ==
    { [x |-> 1, y |-> 1, z |-> vz, w |-> vw, priority |-> 0] :
        vz \in {0, 2}, vw \in {0, 2} }
    \cup { [x |-> 2, y |-> 1, z |-> vz, w |-> 0, priority |-> 0] :
             vz \in {0, 2} }
    \cup { [x |-> 1, y |-> 2, z |-> 0, w |-> 0, priority |-> 0],
           [x |-> NaN, y |-> 1, z |-> 0, w |-> 0, priority |-> 0],
           [x |-> 1, y |-> NaN, z |-> 0, w |-> 0, priority |-> 0],
           [x |-> 1, y |-> 1, z |-> NaN, w |-> 0, priority |-> 0],
           [x |-> 1, y |-> 1, z |-> 0, w |-> NaN, priority |-> 0] }

\* A DataFrame built from the cells, with the default index 0, 1, ...
Frame(cells) ==
    [ i \in 1..Len(cells) |->
        [ idx |-> i - 1, x |-> cells[i].x, y |-> cells[i].y,
          z |-> cells[i].z, w |-> cells[i].w,
          priority |-> cells[i].priority ] ]

Tables == UNION { { Frame(c) : c \in [1..n -> Cells] } : n \in 0..MaxRows }

ColChoices == { <<"x">>, <<"x", "y">> }

Tols == {0, 1}

TolerChoices ==
    { << <<"z", t>> >> : t \in Tols }
    \cup { << <<"z", t>>, <<"w", u>> >> : t \in Tols, u \in Tols }

\* None, a combiner of the module, and a combiner that raises whenever it
\* is called.
Combiners == { "None", "leftmost_combiner", "raising" }

isnull(v) == v = NaN

\* The values of the key columns of a row.
KeyOf(row, cs) == [ i \in 1..Len(cs) |-> row[cs[i]] ]

\* d.groupby(cols): the keys, and the rows of each in the table's order.
GroupKeys(t, cs) == { KeyOf(t[i], cs) : i \in 1..Len(t) }

get_group(t, cs, k) == SelectSeq(t, LAMBDA row : KeyOf(row, cs) = k)

\* groupby sorts the group keys: tuples in lexicographic order.
KeyLess(a, b) ==
    \E i \in 1..Len(a) :
        /\ a[i] < b[i]
        /\ \A j \in 1..(i - 1) : a[j] = b[j]

RECURSIVE SortedKeys(_)
SortedKeys(ks) ==
    IF ks = {} THEN <<>>
    ELSE LET m == CHOOSE k \in ks : \A o \in ks \ {k} : KeyLess(k, o)
         IN  <<m>> \o SortedKeys(ks \ {m})

RECURSIVE Sum(_, _)
Sum(g, c) == IF g = <<>> THEN 0 ELSE g[1][c] + Sum(Tail(g), c)

RECURSIVE SumSq(_, _)
SumSq(g, c) == IF g = <<>> THEN 0 ELSE g[1][c] * g[1][c] + SumSq(Tail(g), c)

\* Mutant: a comparison that rejects a deviation equal to the tolerance.
std_gt_inclusive(g, c, tol) ==
    Len(g) * SumSq(g, c) - Sum(g, c) * Sum(g, c) >= tol * tol * Len(g) * Len(g)

\* std(ddof=0)[c] > tol for the group g: the population variance is
\* (n * sum(v^2) - sum(v)^2) / n^2, compared without the division and the
\* root (tol >= 0).
std_gt(g, c, tol) ==
    Len(g) * SumSq(g, c) - Sum(g, c) * Sum(g, c) > tol * tol * Len(g) * Len(g)

\* Mutant: only the first determined column is compared.
mask_first_only(t, cs, ts, k) ==
    std_gt(get_group(t, cs, k), ts[1][1], ts[1][2])

\* mask: the groups for which some determined column exceeds its tolerance.
mask(t, cs, ts, k) ==
    \E i \in 1..Len(ts) : std_gt(get_group(t, cs, k), ts[i][1], ts[i][2])

RECURSIVE concat_from(_, _)
concat_from(frames, i) ==
    IF i > Len(frames) THEN <<>>
    ELSE frames[i] \o concat_from(frames, i + 1)

\* pd.concat(frames)
concat(frames) == concat_from(frames, 1)

\* Mutant: the index labels of the input rows are kept.
reset_index_kept(t) == t

reset_index(t) == [ i \in 1..Len(t) |-> [t[i] EXCEPT !.idx = i - 1] ]

\* Mutant: the last row of the group instead of the first.
leftmost_combiner_last(g) == [ exc |-> "none", rows |-> <<g[Len(g)]>> ]

leftmost_combiner(g) == [ exc |-> "none", rows |-> <<g[1]>> ]

rightmost_combiner(g) == [ exc |-> "none", rows |-> <<g[Len(g)]>> ]

\* Mutant: a group of several rows is accepted and its first row kept.
unique_combiner_lenient(g) == [ exc |-> "none", rows |-> <<g[1]>> ]

unique_combiner(g) ==
    IF Len(g) # 1 THEN [ exc |-> "Exception", rows |-> <<>> ]
    ELSE [ exc |-> "none", rows |-> g ]

\* Two rows with the same cells (the index label aside).
SameCells(a, b) == [a EXCEPT !.idx = 0] = [b EXCEPT !.idx = 0]

\* d.drop_duplicates(): of rows with the same cells the first stays.
drop_duplicates(g) ==
    LET keep == { i \in 1..Len(g) :
                    \A j \in 1..(i - 1) : ~SameCells(g[j], g[i]) }
    IN  SelectSeq(g, LAMBDA r : \E i \in keep : g[i] = r)

\* d["priority"].max()
max_priority_lowest(g) ==
    CHOOSE m \in { g[i].priority : i \in 1..Len(g) } :
        \A i \in 1..Len(g) : g[i].priority >= m

max_priority(g) ==
    CHOOSE m \in { g[i].priority : i \in 1..Len(g) } :
        \A i \in 1..Len(g) : g[i].priority <= m

\* Mutant: of several rows at the maximum priority the first is picked.
priority_combiner_picks(g) ==
    LET d1 == drop_duplicates(g)
        d2 == SelectSeq(d1, LAMBDA r : r.priority = max_priority(d1))
    IN  [ exc |-> "none", rows |-> <<d2[1]>> ]

priority_combiner(g) ==
    LET d1 == drop_duplicates(g)
        d2 == SelectSeq(d1, LAMBDA r : r.priority = max_priority(d1))
    IN  IF Len(d2) > 1 THEN [ exc |-> "Exception", rows |-> <<>> ]
        ELSE [ exc |-> "none", rows |-> d2 ]

Combine(c, g) ==
    CASE c = "leftmost_combiner"  -> leftmost_combiner(g)
      [] c = "rightmost_combiner" -> rightmost_combiner(g)
      [] c = "unique_combiner"    -> unique_combiner(g)
      [] c = "priority_combiner"  -> priority_combiner(g)
      [] c = "identity"           -> [ exc |-> "none", rows |-> g ]
      [] c = "raising"            -> [ exc |-> "Exception", rows |-> <<>> ]

\* The index labels of a frame, in its order.
IndexOf(t) == [ i \in 1..Len(t) |-> t[i].idx ]

\* The rows in the order of their index labels (the labels are distinct).
sort_index(t) ==
    [ i \in 1..Len(t) |->
        CHOOSE r \in { t[j] : j \in 1..Len(t) } :
            Cardinality({ j \in 1..Len(t) : t[j].idx < r.idx }) = i - 1 ]

\* gs.apply(combiner).reset_index(drop=True): the combiner is called on
\* the groups in the order of their keys; what it raises ends the call.
\* The results are concatenated in the order of the keys, unless every
\* result is indexed like its group: then the concatenation is put back on
\* the index of the table, that is, in the order of the input rows.
apply(t, cs, c) ==
    LET ks      == SortedKeys(GroupKeys(t, cs))
        outs    == [ i \in 1..Len(ks) |-> Combine(c, get_group(t, cs, ks[i])) ]
        failed  == { i \in 1..Len(ks) : outs[i].exc # "none" }
        mutated == \E i \in 1..Len(ks) :
                       IndexOf(outs[i].rows)
                           # IndexOf(get_group(t, cs, ks[i]))
        all     == concat([ i \in 1..Len(ks) |-> outs[i].rows ])
    IN  IF failed = {}
        THEN [ NoResult EXCEPT
                 !.kind = "return",
                 !.table = reset_index(
                     IF mutated THEN all ELSE sort_index(all)),
                 !.applied = Len(ks) ]
        ELSE LET i == CHOOSE j \in failed : \A l \in failed : j <= l
             IN  [ NoResult EXCEPT !.kind = "raise", !.exc = outs[i].exc,
                                   !.applied = i ]

\* Mutant: a check for NaN that looks at the key columns only.
has_null_in_keys(t, cs, out_cols) ==
    \E i \in 1..Len(t) : \E j \in 1..Len(cs) : isnull(t[i][cs[j]])

\* d[cols + out_cols].isnull().any().any()
has_null(t, cs, out_cols) ==
    \E i \in 1..Len(t) : \E j \in 1..Len(cs \o out_cols) :
        isnull(t[i][(cs \o out_cols)[j]])

\* check_fun_dep past the test for an empty table: the check for NaN, the
\* tolerance check, the combiner.
check_rows(t, cs, ts, c) ==
    LET out_cols == [ i \in 1..Len(ts) |-> ts[i][1] ]
        ks       == SortedKeys(GroupKeys(t, cs))
        bad      == SelectSeq(ks, LAMBDA k : mask(t, cs, ts, k))
    IN  IF has_null(t, cs, out_cols)
        THEN [ NoResult EXCEPT !.kind = "raise", !.exc = "ValueError" ]
        ELSE IF bad # <<>>
        THEN [ NoResult EXCEPT
                 !.kind = "raise", !.exc = "FunDepViolationError",
                 !.violations =
                     concat([ i \in 1..Len(bad) |-> get_group(t, cs, bad[i]) ]) ]
        ELSE IF c = "None"
        THEN [ NoResult EXCEPT !.kind = "return", !.table = t ]
        ELSE apply(t, cs, c)

\* Mutant: no early return for a table without rows; the combiner is
\* given the table itself.
check_fun_dep_combines_empty(t, cs, ts, c) ==
    IF Len(t) = 0 /\ c # "None"
    THEN IF c = "raising"
         THEN [ NoResult EXCEPT !.kind = "raise", !.exc = "Exception",
                                !.applied = 1 ]
         ELSE [ NoResult EXCEPT !.kind = "return", !.table = t,
                                !.applied = 1 ]
    ELSE check_rows(t, cs, ts, c)

\* check_fun_dep(d, cols, tolers, combiner).
check_fun_dep(t, cs, ts, c) ==
    IF Len(t) = 0
    THEN [ NoResult EXCEPT !.kind = "return", !.table = t ]
    ELSE check_rows(t, cs, ts, c)

FDInit ==
    /\ in_d \in Tables
    /\ in_cols \in ColChoices
    /\ in_tolers \in TolerChoices
    /\ in_combiner \in Combiners
    /\ fdpc = "start"
    /\ result = NoResult
    /\ again = NoResult

\* The call check_fun_dep(d, cols, tolers, combiner).
Check ==
    /\ fdpc = "start"
    /\ fdpc' = "checked"
    /\ result' = check_fun_dep(in_d, in_cols, in_tolers, in_combiner)
    /\ UNCHANGED <<in_d, in_cols, in_tolers, in_combiner, again>>
    /\ UNCHANGED <<cacheVars, depVars, loadVars, ixVars>>

FDNext == Check

InitFD ==
    CacheUnused /\ DepsUnused /\ LoadUnused /\ FDInit /\ IndexUnused

SpecFD == InitFD /\ [][FDNext]_vars

(***************************************************************************)
(* Properties of check_fun_dep, stated on the inputs of the call and its   *)
(* result.  The deviation is defined here from the mean, not as the        *)
(* function computes it.                                                   *)
(***************************************************************************)
Checked == fdpc = "checked"

RowsOf(t) == { t[i] : i \in 1..Len(t) }

OutCols == { in_tolers[i][1] : i \in 1..Len(in_tolers) }

InputHasNull ==
    \E row \in RowsOf(in_d) :
        \/ \E j \in 1..Len(in_cols) : row[in_cols[j]] = NaN
        \/ \E c \in OutCols : row[c] = NaN

GroupRows(k) == { row \in RowsOf(in_d) : KeyOf(row, in_cols) = k }

RECURSIVE ColSum(_, _)
ColSum(rows, c) ==
    IF rows = {} THEN 0
    ELSE LET r == CHOOSE r \in rows : TRUE
         IN  r[c] + ColSum(rows \ {r}, c)

\* The sum over the rows of (n * v - s)^2.
RECURSIVE DevSum(_, _, _, _)
DevSum(rows, c, n, s) ==
    IF rows = {} THEN 0
    ELSE LET r == CHOOSE r \in rows : TRUE
         IN  (n * r[c] - s) * (n * r[c] - s) + DevSum(rows \ {r}, c, n, s)

\* The population standard deviation of column c over the rows exceeds
\* tol:  sum((v - mean)^2) / n > tol^2, with mean = s / n, multiplied out
\* by n^3.
DeviationExceeds(rows, c, tol) ==
    LET n == Cardinality(rows)
    IN  DevSum(rows, c, n, ColSum(rows, c)) > tol * tol * n * n * n

DeviationEquals(rows, c, tol) ==
    LET n == Cardinality(rows)
    IN  DevSum(rows, c, n, ColSum(rows, c)) = tol * tol * n * n * n

Offending(k) ==
    \E i \in 1..Len(in_tolers) :
        DeviationExceeds(GroupRows(k), in_tolers[i][1], in_tolers[i][2])

OffendingKeys == { k \in GroupKeys(in_d, in_cols) : Offending(k) }

\* C8: for a non-empty table without NaN in the key and determined columns,
\* check_fun_dep raises FunDepViolationError exactly when the population
\* standard deviation of some determined column within some key group is
\* strictly greater than that column's tolerance, and the error's
\* violations are then exactly the rows of the offending groups.
C8_ViolationIffDeviationExceeds ==
    (Checked /\ Len(in_d) > 0 /\ ~InputHasNull) =>
        /\ (result.kind = "raise" /\ result.exc = "FunDepViolationError")
               <=> OffendingKeys # {}
        /\ OffendingKeys # {} =>
               /\ RowsOf(result.violations)
                      = UNION { GroupRows(k) : k \in OffendingKeys }
               /\ Len(result.violations)
                      = Cardinality(RowsOf(result.violations))

\* A call that raises for a group in which one determined column deviates
\* by exactly its tolerance and another by more than its tolerance, while
\* a second group of the table passes and is left out of the violations.
C8_Witness ==
    /\ Checked /\ Len(in_d) > 0 /\ ~InputHasNull
    /\ result.exc = "FunDepViolationError"
    /\ Len(in_tolers) = 2
    /\ \E k \in OffendingKeys :
           /\ in_tolers[1][2] > 0
           /\ DeviationEquals(GroupRows(k), in_tolers[1][1], in_tolers[1][2])
           /\ DeviationExceeds(GroupRows(k), in_tolers[2][1], in_tolers[2][2])
           /\ GroupRows(k) \subseteq RowsOf(result.violations)
    /\ \E k \in GroupKeys(in_d, in_cols) \ OffendingKeys :
           GroupRows(k) \cap RowsOf(result.violations) = {}

\* C9: a non-empty table with NaN in a key column or a determined column
\* makes check_fun_dep raise an error other than FunDepViolationError,
\* with no violations collected and the combiner applied to no group.
C9_NullFailsFirst ==
    (Checked /\ Len(in_d) > 0 /\ InputHasNull) =>
        /\ result.kind = "raise"
        /\ result.exc = "ValueError"
        /\ result.exc # "FunDepViolationError"
        /\ result.violations = <<>>
        /\ result.applied = 0

\* A table with NaN in a determined column and, beside it, a group whose
\* deviation exceeds the tolerance; a combiner is given.
C9_Witness ==
    /\ Checked /\ Len(in_d) > 0
    /\ \E row \in RowsOf(in_d) : \E c \in OutCols : row[c] = NaN
    /\ \A row \in RowsOf(in_d) :
           \A j \in 1..Len(in_cols) : row[in_cols[j]] # NaN
    /\ \E k \in GroupKeys(in_d, in_cols) :
           /\ \A row \in GroupRows(k) : \A c \in OutCols : row[c] # NaN
           /\ Offending(k)
    /\ in_combiner # "None"
    /\ result.exc = "ValueError"

\* C10: for an empty table check_fun_dep raises nothing, returns the
\* table unchanged, and never calls the combiner, whatever the key
\* columns, tolerances and combiner.
C10_EmptyReturnedUnchanged ==
    (Checked /\ Len(in_d) = 0) =>
        /\ result.kind = "return"
        /\ result.exc = "none"
        /\ result.table = in_d
        /\ result.applied = 0

\* The empty table checked with the combiner that always raises.
C10_Witness ==
    /\ Checked /\ Len(in_d) = 0
    /\ in_combiner = "raising"
    /\ result.kind = "return"
    /\ result.table = <<>>

(***************************************************************************)
(* The combiners as check_fun_dep uses them: tables whose rows carry a     *)
(* priority, checked with each combiner of the module, and the table       *)
(* returned checked once more with the same arguments.                     *)
(***************************************************************************)
PriorityCells ==
    { [x |-> 1, y |-> 1, z |-> vz, w |-> 0, priority |-> vp] :
        vz \in {0, 2}, vp \in {0, 2} }
    \cup { [x |-> 2, y |-> 1, z |-> vz, w |-> 0, priority |-> 0] :
             vz \in {0, 2} }
    \cup { [x |-> 1, y |-> 2, z |-> 0, w |-> 0, priority |-> 0] }

PriorityTables ==
    UNION { { Frame(c) : c \in [1..n -> PriorityCells] } : n \in 0..MaxRows }

Policies == { "leftmost_combiner", "rightmost_combiner", "unique_combiner",
              "priority_combiner" }

CombineInit ==
    /\ in_d \in PriorityTables
    /\ in_cols \in ColChoices
    /\ in_tolers \in { << <<"z", t>> >> : t \in Tols }
    /\ in_combiner \in Policies
    /\ fdpc = "start"
    /\ result = NoResult
    /\ again = NoResult

\* check_fun_dep called on the table it returned, with the same key
\* columns, tolerances and combiner.
Recheck ==
    /\ fdpc = "checked"
    /\ result.kind = "return"
    /\ fdpc' = "rechecked"
    /\ again' = check_fun_dep(result.table, in_cols, in_tolers, in_combiner)
    /\ UNCHANGED <<in_d, in_cols, in_tolers, in_combiner, result>>
    /\ UNCHANGED <<cacheVars, depVars, loadVars, ixVars>>

CombineNext == Check \/ Recheck

InitCombine ==
    CacheUnused /\ DepsUnused /\ LoadUnused /\ CombineInit /\ IndexUnused

SpecCombine == InitCombine /\ [][CombineNext]_vars

HasResult == fdpc \in {"checked", "rechecked"}

CellsOf(r) == [r EXCEPT !.idx = 0]

FirstRow(k) ==
    CHOOSE r \in GroupRows(k) : \A o \in GroupRows(k) : r.idx <= o.idx

LastRow(k) ==
    CHOOSE r \in GroupRows(k) : \A o \in GroupRows(k) : r.idx >= o.idx

PassesCheck == Len(in_d) > 0 /\ ~InputHasNull /\ OffendingKeys = {}

\* The rows of the returned table that have the key k.
ResultRows(k) ==
    { r \in RowsOf(result.table) : KeyOf(r, in_cols) = k }

OneRowPerKey ==
    /\ Len(result.table) = Cardinality(GroupKeys(in_d, in_cols))
    /\ \A k \in GroupKeys(in_d, in_cols) : Cardinality(ResultRows(k)) = 1

\* C11: check_fun_dep with leftmost_combiner (rightmost_combiner) returns,
\* for a table that passes the check, a table with exactly one row per
\* distinct key: the first (the last) input row with that key.
C11_LeftmostRightmostRow ==
    (HasResult /\ PassesCheck
       /\ in_combiner \in {"leftmost_combiner", "rightmost_combiner"}) =>
        /\ result.kind = "return"
        /\ OneRowPerKey
        /\ \A k \in GroupKeys(in_d, in_cols) : \A r \in ResultRows(k) :
               CellsOf(r) = CellsOf(IF in_combiner = "leftmost_combiner"
                                    THEN FirstRow(k) ELSE LastRow(k))

\* leftmost_combiner on a table with a group whose first and last rows
\* differ.
C11_Witness ==
    /\ HasResult /\ PassesCheck
    /\ in_combiner = "leftmost_combiner"
    /\ result.kind = "return"
    /\ Cardinality(GroupKeys(in_d, in_cols)) > 1
    /\ \E k \in GroupKeys(in_d, in_cols) :
           /\ CellsOf(FirstRow(k)) # CellsOf(LastRow(k))
           /\ \E r \in ResultRows(k) : CellsOf(r) = CellsOf(FirstRow(k))

RepeatedKeys ==
    { k \in GroupKeys(in_d, in_cols) : Cardinality(GroupRows(k)) # 1 }

\* C12: check_fun_dep with unique_combiner, on a table that passes the
\* check, fails with the combiner's error exactly when some key occurs in
\* more than one row, also when the rows of that key agree; otherwise every
\* one-row group is returned unchanged.
C12_UniqueFailsIffRepeated ==
    (HasResult /\ PassesCheck /\ in_combiner = "unique_combiner") =>
        /\ (result.kind = "raise" /\ result.exc = "Exception")
               <=> RepeatedKeys # {}
        /\ RepeatedKeys = {} =>
               /\ result.kind = "return"
               /\ OneRowPerKey
               /\ \A k \in GroupKeys(in_d, in_cols) : \A r \in ResultRows(k) :
                      CellsOf(r) = CellsOf(FirstRow(k))

\* unique_combiner fails on a key whose two rows have the same cells.
C12_Witness ==
    /\ HasResult /\ PassesCheck /\ in_combiner = "unique_combiner"
    /\ \E k \in RepeatedKeys :
           \A r \in GroupRows(k) : CellsOf(r) = CellsOf(FirstRow(k))
    /\ result.kind = "raise" /\ result.exc = "Exception"

\* The distinct rows of the key k at the greatest priority among them.
TopCells(k) ==
    LET cells == { CellsOf(r) : r \in GroupRows(k) }
    IN  { c \in cells : \A o \in cells : o.priority <= c.priority }

AmbiguousKeys ==
    { k \in GroupKeys(in_d, in_cols) : Cardinality(TopCells(k)) > 1 }

\* C13: check_fun_dep with priority_combiner, on a table that passes the
\* check, fails with the combiner's error exactly when, for some key, more
\* than one distinct row has the key's maximum priority; otherwise it
\* returns for every key the single row of maximum priority.
C13_PriorityMaxOrFail ==
    (HasResult /\ PassesCheck /\ in_combiner = "priority_combiner") =>
        /\ (result.kind = "raise" /\ result.exc = "Exception")
               <=> AmbiguousKeys # {}
        /\ AmbiguousKeys = {} =>
               /\ result.kind = "return"
               /\ OneRowPerKey
               /\ \A k \in GroupKeys(in_d, in_cols) : \A r \in ResultRows(k) :
                      TopCells(k) = { CellsOf(r) }

\* Priorities 0, 2, 2 within one key, the two rows of priority 2 differing:
\* the call fails.
C13_Witness ==
    /\ HasResult /\ PassesCheck /\ in_combiner = "priority_combiner"
    /\ \E k \in AmbiguousKeys :
           /\ Cardinality(GroupRows(k)) = 3
           /\ \E r \in GroupRows(k) : r.priority = 0
           /\ \A c \in TopCells(k) : c.priority = 2
    /\ result.kind = "raise" /\ result.exc = "Exception"

\* C14: when check_fun_dep returns a table R, check_fun_dep called on R
\* with the same key columns, tolerances and combiner (leftmost, rightmost,
\* unique, priority) returns too, and returns R: the same rows in the same
\* order.
C14_ReductionIdempotent ==
    (fdpc = "rechecked" /\ in_combiner \in Policies) =>
        /\ again.kind = "return"
        /\ again.exc = "none"
        /\ again.table = result.table

\* A first call that dropped a row and put the keys in order, and a second
\* call that changed nothing.
C14_Witness ==
    /\ fdpc = "rechecked"
    /\ in_combiner = "leftmost_combiner"
    /\ 1 < Len(result.table) /\ Len(result.table) < Len(in_d)
    /\ in_d[1].x > in_d[2].x
    /\ result.table[1].x < result.table[2].x
    /\ again.kind = "return"
    /\ again.table = result.table
    /\ again.applied = Len(result.table)

(***************************************************************************)
(* Further properties of cached(), checked under Spec.                     *)
(***************************************************************************)
\* A step of some call of a cached function (not of the environment).
WrapperStep == nenv' = nenv

\* C17: entries are never updated in place: no step of any call changes or
\* removes an entry file that holds a complete stored result.
C17_Original ==
    [][ WrapperStep =>
          \A k \in DOMAIN store :
              store[k].kind = "complete" =>
                  k \in DOMAIN store' /\ store'[k] = store[k] ]_vars

\* C19: a call that ends in an error raised by the wrapped function or
\* while the result is stored has left the cache as it was: it has created
\* or cut no entry file.
C19_Original ==
    \A p \in Procs :
        (Done(p) /\ out[p].kind = "raise" /\ obs[p].ran) => ~obs[p].wrote

(***************************************************************************)
(* What a table that check_fun_dep returned satisfies, checked under       *)
(* SpecFD.                                                                 *)
(***************************************************************************)
Abs(v) == IF v < 0 THEN 0 - v ELSE v

Returned == Checked /\ result.kind = "return" /\ Len(in_d) > 0

\* C18 as stated: when check_fun_dep returns, any two rows with the same
\* key differ in each determined column by no more than its tolerance.
C18_Original ==
    Returned =>
        \A i \in 1..Len(in_tolers) : \A k \in GroupKeys(in_d, in_cols) :
            \A r1, r2 \in GroupRows(k) :
                Abs(r1[in_tolers[i][1]] - r2[in_tolers[i][1]])
                    <= in_tolers[i][2]

\* C18, amended: when check_fun_dep returns, the population standard
\* deviation of each determined column over the rows of a key is no greater
\* than the column's tolerance; the two rows of a two-row group differ by
\* no more than twice the tolerance.
C18_DeviationWithinTolerance ==
    Returned =>
        \A i \in 1..Len(in_tolers) : \A k \in GroupKeys(in_d, in_cols) :
            /\ ~DeviationExceeds(GroupRows(k), in_tolers[i][1],
                                 in_tolers[i][2])
            /\ Cardinality(GroupRows(k)) = 2 =>
                   \A r1, r2 \in GroupRows(k) :
                       Abs(r1[in_tolers[i][1]] - r2[in_tolers[i][1]])
                           <= 2 * in_tolers[i][2]

\* A returned table in which two rows of a key differ by twice the
\* tolerance, in the second determined column.
C18_Witness ==
    /\ Returned
    /\ Len(in_tolers) = 2
    /\ in_tolers[2][2] > 0
    /\ \E k \in GroupKeys(in_d, in_cols) :
           /\ Cardinality(GroupRows(k)) = 2
           /\ \E r1, r2 \in GroupRows(k) :
                  r1[in_tolers[2][1]] - r2[in_tolers[2][1]]
                      = 2 * in_tolers[2][2]

(***************************************************************************)
(* The pipelines.  A file is the table load_table reads from it: a         *)
(* sequence of rows with the file's column names.  Frequencies are in      *)
(* tenths (1 is 0.1, 10 is 1.0), energies and the tolerance are in a       *)
(* common unit.  A string column holds the position of the string in       *)
(* Strings, so that every cell is a number or NaN.                         *)
(***************************************************************************)
Strings ==
    << "normal", "sigmaA=0.5,sigmaB=4.0", "ground", "add", "rm",
       "hf", "imsrg", "ccsd", "imsrg+qdpt3", "imsrg+eom",
       "imsrg[f]+eom[n]", "magnus_quads+eom", "ccsd+eom" >>

Code(str) == CHOOSE i \in 1..Len(Strings) : Strings[i] = str

max_shells == 100

\* get_num_filled for one value: the k below max_shells with
\* num_particles = k * (k + 1); without one it raises ValueError.
has_num_filled(num_particles) ==
    \E k \in 0..(max_shells - 1) : num_particles = k * (k + 1)

get_num_filled_one_based(num_particles) ==
    1 + CHOOSE k \in 0..(max_shells - 1) : num_particles = k * (k + 1)

get_num_filled(num_particles) ==
    CHOOSE k \in 0..(max_shells - 1) : num_particles = k * (k + 1)

\* pd.concat(frames, ignore_index=True)
concat_ignore_index(frames) == reset_index(concat(frames))

\* d.dropna(): the rows without NaN in any column.
dropna(d) ==
    SelectSeq(d, LAMBDA r : \A c \in DOMAIN r \ {"idx"} : ~isnull(r[c]))

Raises(exc) == [ kind |-> "raise", exc |-> exc, table |-> <<>> ]

Returns(d) == [ kind |-> "return", exc |-> "none", table |-> d ]

\* The two data points load_ground leaves out of ground-sarah.txt.
sarah_dropped(r) ==
    \/ r.freq = 1 /\ r.num_particles = 30 /\ r.num_shells = 16
          /\ r.method = Code("hf")
    \/ r.freq = 5 /\ r.num_particles = 30 /\ r.num_shells = 11
          /\ r.method = Code("imsrg")

\* The columns num_shells, num_filled, freq, energy of a table of Nathan's
\* (omega, E(N)) or Sam's (hw, E0), duplicates dropped, with the method and
\* the priority set.
ground_of(d, freq_col, energy_col, method, priority) ==
    LET sel == [ i \in 1..Len(d) |->
                   [ idx |-> d[i].idx, num_shells |-> d[i]["shells"],
                     num_filled |-> d[i]["filled"], freq |-> d[i][freq_col],
                     energy |-> d[i][energy_col] ] ]
        dd  == drop_duplicates(sel)
    IN  [ i \in 1..Len(dd) |->
            [ idx |-> dd[i].idx, num_shells |-> dd[i].num_shells,
              num_filled |-> dd[i].num_filled, freq |-> dd[i].freq,
              energy |-> dd[i].energy, method |-> Code(method),
              priority |-> priority ] ]

\* A row of the table load_ground returns: the priority deleted unless
\* with_priority, and interaction, label, ml, num_particles and
\* energy_per_particle (the quotient, as <<dividend, divisor>>) set.
ground_row(r, with_priority) ==
    LET num_particles == r.num_filled * (r.num_filled + 1)
    IN  IF with_priority
        THEN [ idx |-> r.idx, freq |-> r.freq, num_shells |-> r.num_shells,
               method |-> r.method, energy |-> r.energy,
               num_filled |-> r.num_filled, priority |-> r.priority,
               interaction |-> Code("normal"), label |-> Code("ground"),
               ml |-> 0, num_particles |-> num_particles,
               energy_per_particle |-> <<r.energy, num_particles>> ]
        ELSE [ idx |-> r.idx, freq |-> r.freq, num_shells |-> r.num_shells,
               method |-> r.method, energy |-> r.energy,
               num_filled |-> r.num_filled,
               interaction |-> Code("normal"), label |-> Code("ground"),
               ml |-> 0, num_particles |-> num_particles,
               energy_per_particle |-> <<r.energy, num_particles>> ]

\* The sources of load_ground, concatenated in the order of the code, or
\* the failure of get_num_filled.
ground_sources ==
    LET s1 == SelectSeq(data["ground-sarah.txt"],
                        LAMBDA r : ~sarah_dropped(r))
        s2 == dropna([ i \in 1..Len(s1) |->
                  [ idx |-> s1[i].idx, freq |-> s1[i].freq,
                    num_shells |-> s1[i].num_shells,
                    method |-> s1[i].method, energy |-> s1[i].energy,
                    num_filled |-> get_num_filled(s1[i].num_particles),
                    priority |-> 0 - 2 ] ])
        f1 == SelectSeq(data["imsrg-qdpt/ground.txt"],
                        LAMBDA r : r.interaction = Code("normal"))
        f2 == [ i \in 1..Len(f1) |->
                  [ idx |-> f1[i].idx, freq |-> f1[i].freq,
                    num_shells |-> f1[i].num_shells,
                    method |-> f1[i].method, energy |-> f1[i].energy,
                    num_filled |-> f1[i].num_filled, priority |-> 0 ] ]
        n  == ground_of(concat_ignore_index(
                  << data["EOM_IMSRG_qd_attached.dat"],
                     data["EOMIMSRG_up_to_16_attached.dat"] >>),
                  "omega", "E(N)", "imsrg", 0 - 1)
        c  == ground_of(concat_ignore_index(
                  << data["QD_CCSD_PA.dat"],
                     data["QD_CCSD_PA_10_2_010-100.dat"] >>),
                  "hw", "E0", "ccsd", 0)
    IN  IF Len(s1) = 0
            \/ \E i \in 1..Len(s1) : ~has_num_filled(s1[i].num_particles)
        THEN Raises("ValueError")
        ELSE Returns(concat_ignore_index(<<s2, f2, n, c>>))

\* load_ground(with_priority, toler) with the default files, from the
\* concatenated sources on.
load_ground(s, with_priority, toler) ==
    LET r  == check_fun_dep(s.table,
                            <<"freq", "num_filled", "num_shells", "method">>,
                            << <<"energy", toler>> >>,
                            IF with_priority THEN "identity"
                            ELSE "priority_combiner")
        t  == r.table
    IN  IF s.kind = "raise" THEN s
        ELSE IF r.kind = "raise" THEN Raises(r.exc)
        ELSE Returns([ i \in 1..Len(t) |-> ground_row(t[i], with_priority) ])

(***************************************************************************)
(* The state index.  A Python int has no greatest value: here it is the    *)
(* sequence of its digits in base Base, the lowest first and the highest   *)
(* not zero; 0 is the empty sequence.                                      *)
(***************************************************************************)
Base == 2 ^ 15

RECURSIVE Limbs(_)
Limbs(v) == IF v = 0 THEN <<>> ELSE <<v % Base>> \o Limbs(v \div Base)

\* The number, where a model value can hold it.
RECURSIVE Value(_)
Value(a) == IF a = <<>> THEN 0 ELSE a[1] + Base * Value(Tail(a))

Limb(a, i) == IF i <= Len(a) THEN a[i] ELSE 0

RECURSIVE Norm(_)
Norm(a) ==
    IF a = <<>> THEN <<>>
    ELSE IF a[Len(a)] = 0 THEN Norm(SubSeq(a, 1, Len(a) - 1))
    ELSE a

RECURSIVE AddFrom(_, _, _, _)
AddFrom(a, b, i, carry) ==
    IF i > Len(a) /\ i > Len(b)
    THEN IF carry = 0 THEN <<>> ELSE <<carry>>
    ELSE LET x == Limb(a, i) + Limb(b, i) + carry
         IN  <<x % Base>> \o AddFrom(a, b, i + 1, x \div Base)

Add(a, b) == AddFrom(a, b, 1, 0)

\* a - b, for a >= b.
RECURSIVE SubFrom(_, _, _, _)
SubFrom(a, b, i, borrow) ==
    IF i > Len(a) THEN <<>>
    ELSE LET x == a[i] - Limb(b, i) - borrow
         IN  <<(x + Base) % Base>>
                 \o SubFrom(a, b, i + 1, IF x < 0 THEN 1 ELSE 0)

Sub(a, b) == Norm(SubFrom(a, b, 1, 0))

\* a * c, for a digit c.
RECURSIVE MulDigitFrom(_, _, _, _)
MulDigitFrom(a, c, i, carry) ==
    IF i > Len(a) THEN Limbs(carry)
    ELSE LET x == a[i] * c + carry
         IN  <<x % Base>> \o MulDigitFrom(a, c, i + 1, x \div Base)

MulDigit(a, c) == Norm(MulDigitFrom(a, c, 1, 0))

\* a * Base ^ q
Raise(a, q) == IF a = <<>> THEN <<>> ELSE [ i \in 1..q |-> 0 ] \o a

RECURSIVE MulFrom(_, _, _)
MulFrom(a, b, i) ==
    IF i > Len(b) THEN <<>>
    ELSE Add(MulDigit(a, b[i]), Raise(MulFrom(a, b, i + 1), 1))

Mul(a, b) == MulFrom(a, b, 1)

\* -1, 0 or 1 as a is less than, equal to or greater than b.
RECURSIVE CmpFrom(_, _, _)
CmpFrom(a, b, i) ==
    IF i = 0 THEN 0
    ELSE IF a[i] < b[i] THEN 0 - 1
    ELSE IF a[i] > b[i] THEN 1
    ELSE CmpFrom(a, b, i - 1)

Cmp(a, b) ==
    IF Len(a) < Len(b) THEN 0 - 1
    ELSE IF Len(a) > Len(b) THEN 1
    ELSE CmpFrom(a, b, Len(a))

\* int.bit_length()
BitLen(a) ==
    IF a = <<>> THEN 0
    ELSE 15 * (Len(a) - 1)
           + CHOOSE n \in 1..15 :
                 2 ^ (n - 1) <= a[Len(a)] /\ a[Len(a)] < 2 ^ n

\* a * 2 ^ t
ShiftLeft(a, t) == Raise(MulDigit(a, 2 ^ (t % 15)), t \div 15)

\* a // 2 ^ t
ShiftRight(a, t) ==
    LET q == t \div 15
        r == t % 15
        h == IF q >= Len(a) THEN <<>> ELSE SubSeq(a, q + 1, Len(a))
    IN  Norm([ i \in 1..Len(h) |->
                 h[i] \div 2 ^ r + (Limb(h, i + 1) % 2 ^ r) * 2 ^ (15 - r) ])

\* float(x): the double nearest the int x, the one with the even
\* significand of two equally near.  A double has 53 significant bits.
to_double(x) ==
    IF BitLen(x) <= 53 THEN x
    ELSE LET t    == BitLen(x) - 53
             q    == ShiftRight(x, t)
             rest == Cmp(Sub(x, ShiftLeft(q, t)), ShiftLeft(<<1>>, t - 1))
             up   == rest > 0 \/ (rest = 0 /\ q[1] % 2 = 1)
         IN  ShiftLeft(IF up THEN Add(q, <<1>>) ELSE q, t)

\* The greatest s with s * s <= x, found bit by bit from the highest.
RECURSIVE isqrt_from(_, _, _)
isqrt_from(x, s, bit) ==
    IF bit < 0 THEN s
    ELSE LET c == s + 2 ^ bit
         IN  IF Cmp(Mul(Limbs(c), Limbs(c)), x) <= 0
             THEN isqrt_from(x, c, bit - 1)
             ELSE isqrt_from(x, s, bit - 1)

\* The whole part that x ** 0.5 can have for an int x >= 1.  x becomes the
\* double nearest to it, and pow gives one of the two doubles nearest the
\* root: the root itself where it is a double.  With s the integer root,
\* the result is at least s, and it can be s + 1 where no double lies
\* between the root and s + 1: the doubles just below v = s + 1 are
\* 2 ^ -j apart, v - 2 ^ -j is the greatest, and the root exceeds it when
\* (v * 2 ^ j - 1) ^ 2 < x * 4 ^ j.
pow_half(x) ==
    LET xd == to_double(x)
        s  == isqrt_from(xd, 0, (BitLen(xd) - 1) \div 2)
        v  == s + 1
        L  == BitLen(Limbs(v))
        j  == IF v = 2 ^ (L - 1) THEN 54 - L ELSE 53 - L
        below == Sub(ShiftLeft(Limbs(v), j), <<1>>)
    IN  {s} \cup (IF Cmp(Mul(below, below), ShiftLeft(xd, 2 * j)) < 0
                  THEN {v} ELSE {})

\* n_ml_tms_to_p(n, ml, tms): the index, or the failure of an assert.
n_ml_tms_to_p(n, ml, tms) ==
    IF n < 0 \/ tms \notin {0 - 1, 1}
    THEN [ exc |-> "AssertionError", p |-> <<>> ]
    ELSE LET abs_ml == IF ml < 0 THEN 0 - ml ELSE ml
             k  == 2 * n + abs_ml
             kk == Add(Limbs((1 - tms) \div 2),
                       Mul(Limbs(k), Limbs(k + 2)))
         IN  [ exc |-> "none",
               p |-> IF ml < 0 THEN Sub(kk, Limbs(abs_ml))
                     ELSE Add(kk, Limbs(abs_ml)) ]

\* p_to_n_ml_tms(p) for p >= 0, where root is the whole part of
\* (4 * p + 1) ** 0.5, one of pow_half.  The root is at least 1, and
\* subtracting 1 from it is exact.
p_to_n_ml_tms(p, root) ==
    LET odd  == Limb(p, 1) % 2
        tms  == 1 - odd * 2
        k    == (root - 1) \div 2
        even == Sub(p, Limbs(odd))
        kk   == Mul(Limbs(k), Limbs(k + 2))
        ml   == IF Cmp(even, kk) < 0 THEN 0 - Value(Sub(kk, even))
                ELSE Value(Sub(even, kk))
        n    == (k - (IF ml < 0 THEN 0 - ml ELSE ml)) \div 2
    IN  <<n, ml, tms>>

\* p_to_ml(p), for a p that leaves pow no choice.
p_to_ml(p) ==
    p_to_n_ml_tms(Limbs(p),
                  CHOOSE root \in pow_half(Limbs(4 * p + 1)) : TRUE)[2]

p_num_filled_to_label(p, num_filled) ==
    IF p >= num_filled * (num_filled + 1) THEN "add" ELSE "rm"

\* parse_nathan_like_data(d, label), and the method and interaction that
\* load_addrm sets on the result.
parse_nathan_like_data(d, label, method, interaction) ==
    [ i \in 1..Len(d) |->
        [ idx |-> d[i].idx, num_shells |-> d[i]["shells"],
          num_filled |-> d[i]["filled"], ml |-> d[i]["ML"],
          freq |-> d[i]["omega"],
          energy |-> IF label = "add" THEN d[i]["E(N+1)-E(N)"]
                     ELSE 0 - d[i]["E(N-1)-E(N)"],
          label |-> Code(label), method |-> Code(method),
          interaction |-> Code(interaction) ] ]

\* d["energy"] *= d["freq"] ** 0.5, for the frequencies whose root is a
\* whole number.
times_sqrt_freq(d) ==
    [ i \in 1..Len(d) |->
        [ d[i] EXCEPT !.energy =
              d[i].energy * CHOOSE r \in 0..d[i].freq :
                                r * r * 10 = d[i].freq ] ]

\* Sam's tables: label set, dE negated for removal, columns renamed and
\* selected, method and interaction set.
ccsd_of(d, label) ==
    [ i \in 1..Len(d) |->
        [ idx |-> d[i].idx, num_shells |-> d[i]["shells"],
          num_filled |-> d[i]["filled"], ml |-> d[i]["ML"],
          freq |-> d[i]["hw"],
          energy |-> IF label = "add" THEN d[i]["dE"] ELSE 0 - d[i]["dE"],
          label |-> Code(label), method |-> Code("ccsd+eom"),
          interaction |-> Code("normal") ] ]

\* The table of Fei's QDPT: "+qdpt3" appended to the method where iter is
\* set, the label and ml derived from p.
qdpt_of(d) ==
    [ i \in 1..Len(d) |->
        [ idx |-> d[i].idx, num_shells |-> d[i].num_shells,
          num_filled |-> d[i].num_filled, freq |-> d[i].freq,
          energy |-> d[i].energy, interaction |-> d[i].interaction,
          method |-> IF d[i].iter # 0
                     THEN Code(Strings[d[i].method] \o "+qdpt3")
                     ELSE d[i].method,
          label |-> Code(p_num_filled_to_label(d[i].p, d[i].num_filled)),
          ml |-> p_to_ml(d[i].p) ] ]

\* The sources of load_addrm, concatenated in the order of the code.
addrm_sources ==
    LET attached(file, method, interaction) ==
            parse_nathan_like_data(data[file], "add", method, interaction)
        removed(file, method, interaction) ==
            parse_nathan_like_data(data[file], "rm", method, interaction)
        fei  == qdpt_of(data["imsrg-qdpt/addrm.txt"])
        eom  == concat_ignore_index(<<
                  attached("EOM_IMSRG_qd_attached.dat", "imsrg+eom", "normal"),
                  removed("EOM_IMSRG_qd_removed.dat", "imsrg+eom", "normal"),
                  attached("freq_sweep_N6_R10_attached.dat",
                           "imsrg+eom", "normal"),
                  removed("freq_sweep_N6_R10_removed.dat",
                          "imsrg+eom", "normal"),
                  attached("EOM-IMSRG_freq_sweep_6part_ml1_attached.dat",
                           "imsrg+eom", "normal"),
                  removed("EOM-IMSRG_freq_sweep_6part_ml1_removed.dat",
                          "imsrg+eom", "normal"),
                  attached("EOMIMSRG_up_to_16_attached.dat",
                           "imsrg+eom", "normal"),
                  removed("EOMIMSRG_up_to_16_removed.dat",
                          "imsrg+eom", "normal"),
                  attached("EOM_particle_attached.dat", "imsrg+eom", "normal"),
                  removed("EOM_particle_removed.dat", "imsrg+eom", "normal"),
                  attached("missing_EOM_particle_attached.dat",
                           "imsrg+eom", "normal") >>)
        soft == concat_ignore_index(<<
                  attached("EOM_IMSRG_softened_attached.dat",
                           "imsrg+eom", "sigmaA=0.5,sigmaB=4.0"),
                  removed("EOM_IMSRG_softened_removed.dat",
                          "imsrg+eom", "sigmaA=0.5,sigmaB=4.0") >>)
        ham1 == times_sqrt_freq(
                  attached("EOM_IMSRG_FEI_HAM_particle_attached.dat",
                           "imsrg[f]+eom[n]", "normal"))
        ham2 == times_sqrt_freq(
                  removed("EOM_IMSRG_FEI_HAM_particle_removed.dat",
                          "imsrg[f]+eom[n]", "normal"))
        mag1 == attached("EOM_magnus_quads_attached.dat",
                         "magnus_quads+eom", "normal")
        mag2 == removed("EOM_magnus_quads_removed.dat",
                        "magnus_quads+eom", "normal")
        d1   == ccsd_of(concat_ignore_index(
                  << data["QD_CCSD_PA.dat"],
                     data["QD_CCSD_PA_10_2_010-100.dat"] >>), "add")
        d2   == ccsd_of(concat_ignore_index(
                  << data["QD_CCSD_PR.dat"],
                     data["QD_CCSD_PR_10_2_010-100.dat"] >>), "rm")
        ccsd == concat_ignore_index(<<d1, d2>>)
    IN  Returns(concat_ignore_index(
            <<fei, eom, soft, ham1, ham2, mag1, mag2, ccsd>>))

\* load_addrm(toler) with the default files, from the concatenated sources
\* on.
load_addrm(s, toler) ==
    LET r    == check_fun_dep(s.table,
                              <<"label", "ml", "interaction", "freq",
                                "num_filled", "num_shells", "method">>,
                              << <<"energy", toler>> >>, "leftmost_combiner")
        t    == r.table
    IN  IF r.kind = "raise" THEN Raises(r.exc)
        ELSE Returns([ i \in 1..Len(t) |->
                 [ idx |-> t[i].idx, label |-> t[i].label, ml |-> t[i].ml,
                   interaction |-> t[i].interaction, freq |-> t[i].freq,
                   num_filled |-> t[i].num_filled,
                   num_shells |-> t[i].num_shells, method |-> t[i].method,
                   energy |-> t[i].energy,
                   num_particles |->
                       t[i].num_filled * (t[i].num_filled + 1) ] ])

\* load_ground_dmc()
load_ground_dmc ==
    LET d == data["ground-dmc-joergen.txt"]
    IN  IF Len(d) = 0
            \/ \E i \in 1..Len(d) : ~has_num_filled(d[i].num_particles)
        THEN Raises("ValueError")
        ELSE Returns([ i \in 1..Len(d) |->
                 [ idx |-> d[i].idx, freq |-> d[i].freq,
                   num_particles |-> d[i].num_particles,
                   energy |-> d[i].energy, energy_err |-> d[i].energy_err,
                   interaction |-> Code("normal"), label |-> Code("ground"),
                   ml |-> 0,
                   num_filled |-> get_num_filled(d[i].num_particles),
                   energy_per_particle |->
                       <<d[i].energy, d[i].num_particles>>,
                   energy_per_particle_err |->
                       <<d[i].energy_err, d[i].num_particles>> ] ])

\* load_addrm_dmc()
load_addrm_dmc ==
    LET d == data["addrm-dmc-pedersen.txt"]
    IN  Returns([ i \in 1..Len(d) |->
            [ idx |-> d[i].idx, freq |-> d[i].freq,
              num_filled |-> d[i].num_filled, ml |-> d[i].ml,
              energy |-> d[i].energy, energy_err |-> d[i].energy_err,
              interaction |-> Code("normal"),
              label |-> IF d[i].is_hole # 0 THEN Code("rm") ELSE Code("add"),
              num_particles |-> d[i].num_filled * (d[i].num_filled + 1) ] ])

\* load_all(), which calls load_ground and load_addrm with their default
\* arguments; the unit of the energies is the default tolerance.
load_all(s) ==
    LET g == load_ground(s.ground, FALSE, 1)
        a == load_addrm(s.addrm, 1)
        del(d, column) ==
            [ i \in 1..Len(d) |->
                [ c \in DOMAIN d[i] \ {column} |-> d[i][c] ] ]
    IN  IF g.kind = "raise" THEN g
        ELSE IF a.kind = "raise" THEN a
        ELSE Returns(concat_ignore_index(
                 << del(g.table, "energy_per_particle"), a.table >>))

(***************************************************************************)
(* The files the pipelines read.  Most are tables without rows; those      *)
(* that several sources share, or that decide an error, have rows.         *)
(***************************************************************************)
\* What load_table gives for the rows of a file: the default index.
load_table(cells) == [ i \in 1..Len(cells) |-> ("idx" :> i - 1) @@ cells[i] ]

\* The rows are given by their cells.
FileChoices ==
    LET sarah(num_particles, energy) ==
            [ freq |-> 10, num_particles |-> num_particles, num_shells |-> 4,
              method |-> Code("imsrg"), energy |-> energy ]
        sarah_odd ==
            [ freq |-> 1, num_particles |-> 30, num_shells |-> 16,
              method |-> Code("hf"), energy |-> 0 ]
        fei_ground(interaction, method, energy) ==
            [ interaction |-> Code(interaction), freq |-> 10, num_filled |-> 1,
              num_shells |-> 4, method |-> Code(method), energy |-> energy ]
        fei_addrm(method, iter, p, energy) ==
            [ interaction |-> Code("normal"), freq |-> 10, num_filled |-> 1,
              num_shells |-> 4, method |-> Code(method), iter |-> iter, p |-> p,
              energy |-> energy ]
        nathan(omega, E_N, dE) ==
            "shells" :> 4 @@ "filled" :> 1 @@ "ML" :> 0 @@ "omega" :> omega
            @@ "E(N)" :> E_N @@ "E(N+1)-E(N)" :> dE @@ "E(N-1)-E(N)" :> dE
        sam(E0, dE) ==
            [ shells |-> 4, filled |-> 1, ML |-> 0, hw |-> 10, E0 |-> E0,
              dE |-> dE ]
    IN  [ f \in ReadPaths("load_ground") \cup ReadPaths("load_addrm")
                  \cup {"ground-dmc-joergen.txt", "addrm-dmc-pedersen.txt"} |->
            CASE f = "ground-sarah.txt" ->
                   { <<>>, <<sarah(2, 0)>>, <<sarah(5, 0)>>,
                     <<sarah_odd, sarah(2, NaN), sarah(6, 2)>> }
              [] f = "imsrg-qdpt/ground.txt" ->
                   { <<>>, <<fei_ground("normal", "imsrg", 2)>>,
                     << fei_ground("sigmaA=0.5,sigmaB=4.0", "imsrg", 4),
                        fei_ground("normal", "ccsd", 0) >> }
              [] f = "EOM_IMSRG_qd_attached.dat" ->
                   { <<>>, <<nathan(10, 0, 0)>>,
                     <<nathan(10, 0, 0), nathan(10, 0, 2)>> }
              [] f = "EOMIMSRG_up_to_16_attached.dat" ->
                   { <<nathan(10, 2, 2)>>, <<nathan(10, 4, 4)>> }
              [] f = "EOM_IMSRG_qd_removed.dat" ->
                   { <<>>, <<nathan(10, 0, 2)>> }
              [] f = "EOM_IMSRG_FEI_HAM_particle_attached.dat" ->
                   { <<>>, <<nathan(40, 0, 2)>> }
              [] f = "QD_CCSD_PA.dat" -> { <<>>, <<sam(2, 2)>> }
              [] f = "QD_CCSD_PR.dat" -> { <<sam(0, 2)>> }
              [] f = "imsrg-qdpt/addrm.txt" ->
                   { <<>>, <<fei_addrm("imsrg", 1, 2, 0)>>,
                     << fei_addrm("imsrg+eom", 0, 8, 2),
                        fei_addrm("imsrg", 0, 1, 0) >> }
              [] f = "ground-dmc-joergen.txt" ->
                   { << [ freq |-> 10, num_particles |-> 6, energy |-> 2,
                          energy_err |-> 0 ] >>,
                     << [ freq |-> 10, num_particles |-> 5, energy |-> 2,
                          energy_err |-> 0 ] >> }
              [] f = "addrm-dmc-pedersen.txt" ->
                   { << [ freq |-> 10, num_filled |-> 1, ml |-> 0, is_hole |-> 0,
                          energy |-> 2, energy_err |-> 0 ],
                        [ freq |-> 10, num_filled |-> 2, ml |-> 1, is_hole |-> 1,
                          energy |-> 0, energy_err |-> 0 ] >> }
              [] OTHER -> { <<>> } ]

LoadInit ==
    /\ \E sarah_txt \in FileChoices["ground-sarah.txt"],
          ground_txt \in FileChoices["imsrg-qdpt/ground.txt"],
          qd_attached \in FileChoices["EOM_IMSRG_qd_attached.dat"],
          up_to_16 \in FileChoices["EOMIMSRG_up_to_16_attached.dat"],
          qd_removed \in FileChoices["EOM_IMSRG_qd_removed.dat"],
          fei_ham \in FileChoices["EOM_IMSRG_FEI_HAM_particle_attached.dat"],
          ccsd_pa \in FileChoices["QD_CCSD_PA.dat"],
          ccsd_pr \in FileChoices["QD_CCSD_PR.dat"],
          addrm_txt \in FileChoices["imsrg-qdpt/addrm.txt"],
          dmc_ground \in FileChoices["ground-dmc-joergen.txt"],
          dmc_addrm \in FileChoices["addrm-dmc-pedersen.txt"] :
          data = [ f \in DOMAIN FileChoices |-> load_table(
              CASE f = "ground-sarah.txt" -> sarah_txt
                [] f = "imsrg-qdpt/ground.txt" -> ground_txt
                [] f = "EOM_IMSRG_qd_attached.dat" -> qd_attached
                [] f = "EOMIMSRG_up_to_16_attached.dat" -> up_to_16
                [] f = "EOM_IMSRG_qd_removed.dat" -> qd_removed
                [] f = "EOM_IMSRG_FEI_HAM_particle_attached.dat" -> fei_ham
                [] f = "QD_CCSD_PA.dat" -> ccsd_pa
                [] f = "QD_CCSD_PR.dat" -> ccsd_pr
                [] f = "imsrg-qdpt/addrm.txt" -> addrm_txt
                [] f = "ground-dmc-joergen.txt" -> dmc_ground
                [] f = "addrm-dmc-pedersen.txt" -> dmc_addrm
                [] OTHER -> CHOOSE t \in FileChoices[f] : TRUE) ]
    /\ ldpc = "start"
    /\ ld_call = NoLdCall
    /\ sources = [ ground |-> NoLoaded, addrm |-> NoLoaded ]
    /\ loaded = NoLoaded

LoadGround(with_priority, toler) ==
    /\ ldpc = "start"
    /\ ldpc' = "loaded"
    /\ ld_call' = [ fn |-> "load_ground", with_priority |-> with_priority,
                    toler |-> toler ]
    /\ sources' = [ ground |-> ground_sources, addrm |-> NoLoaded ]
    /\ loaded' = load_ground(sources'.ground, with_priority, toler)
    /\ UNCHANGED data
    /\ UNCHANGED <<cacheVars, fdVars, depVars, ixVars>>

LoadAddrm(toler) ==
    /\ ldpc = "start"
    /\ ldpc' = "loaded"
    /\ ld_call' = [ fn |-> "load_addrm", with_priority |-> FALSE,
                    toler |-> toler ]
    /\ sources' = [ ground |-> NoLoaded, addrm |-> addrm_sources ]
    /\ loaded' = load_addrm(sources'.addrm, toler)
    /\ UNCHANGED data
    /\ UNCHANGED <<cacheVars, fdVars, depVars, ixVars>>

LoadGroundDmc ==
    /\ ldpc = "start"
    /\ ldpc' = "loaded"
    /\ ld_call' = [ fn |-> "load_ground_dmc", with_priority |-> FALSE,
                    toler |-> 0 ]
    /\ sources' = [ ground |-> NoLoaded, addrm |-> NoLoaded ]
    /\ loaded' = load_ground_dmc
    /\ UNCHANGED data
    /\ UNCHANGED <<cacheVars, fdVars, depVars, ixVars>>

LoadAddrmDmc ==
    /\ ldpc = "start"
    /\ ldpc' = "loaded"
    /\ ld_call' = [ fn |-> "load_addrm_dmc", with_priority |-> FALSE,
                    toler |-> 0 ]
    /\ sources' = [ ground |-> NoLoaded, addrm |-> NoLoaded ]
    /\ loaded' = load_addrm_dmc
    /\ UNCHANGED data
    /\ UNCHANGED <<cacheVars, fdVars, depVars, ixVars>>

LoadAll ==
    /\ ldpc = "start"
    /\ ldpc' = "loaded"
    /\ ld_call' = [ fn |-> "load_all", with_priority |-> FALSE,
                    toler |-> 0 ]
    /\ sources' = [ ground |-> ground_sources, addrm |-> addrm_sources ]
    /\ loaded' = load_all(sources')
    /\ UNCHANGED data
    /\ UNCHANGED <<cacheVars, fdVars, depVars, ixVars>>

LoadNext ==
    \/ \E with_priority \in BOOLEAN, toler \in Tols :
           LoadGround(with_priority, toler)
    \/ \E toler \in Tols : LoadAddrm(toler)
    \/ LoadGroundDmc
    \/ LoadAddrmDmc
    \/ LoadAll

InitLoad ==
    CacheUnused /\ FDUnused /\ DepsUnused /\ LoadInit /\ IndexUnused

SpecLoad == InitLoad /\ [][LoadNext]_vars

(***************************************************************************)
(* Properties of the pipelines.                                            *)
(***************************************************************************)
LoadReturned == ldpc = "loaded" /\ loaded.kind = "return"

\* A particle count of the form k (k + 1).
FillsShells(num_particles) ==
    \E k \in 0..num_particles : k * (k + 1) = num_particles

\* The files whose rows give a particle count to the call made.
ParticleFiles ==
    CASE ld_call.fn \in {"load_ground", "load_all"} -> {"ground-sarah.txt"}
      [] ld_call.fn = "load_ground_dmc" -> {"ground-dmc-joergen.txt"}
      [] OTHER -> {}

\* C15: every row of a table that load_ground, load_addrm, load_ground_dmc,
\* load_addrm_dmc or load_all returns has
\* num_particles = num_filled * (num_filled + 1), and the call fails when a
\* row of a source has a particle count that is not of the form k (k + 1).
C15_ParticlesFromFilled ==
    /\ LoadReturned =>
           \A i \in 1..Len(loaded.table) :
               loaded.table[i].num_particles
                   = loaded.table[i].num_filled
                         * (loaded.table[i].num_filled + 1)
    /\ ldpc = "loaded" =>
           \A f \in ParticleFiles : \A i \in 1..Len(data[f]) :
               ~FillsShells(data[f][i].num_particles)
                   => loaded.kind = "raise"

\* load_ground_dmc returned the row of a file with six particles, and found
\* two filled shells for it.
C15_Witness ==
    /\ LoadReturned
    /\ ld_call.fn = "load_ground_dmc"
    /\ \E i \in 1..Len(loaded.table) :
           /\ loaded.table[i].num_particles = 6
           /\ loaded.table[i].num_filled = 2

GroundKey == <<"freq", "num_filled", "num_shells", "method">>

AddrmKey ==
    <<"label", "ml", "interaction", "freq", "num_filled", "num_shells",
      "method">>

SameKey(a, b, key) == \A i \in 1..Len(key) : a[key[i]] = b[key[i]]

\* The rows that load_ground(with_priority=False) returned: the table of
\* the call, or its rows in the table of load_all.
GroundReturned ==
    LoadReturned /\ \/ ld_call.fn = "load_ground" /\ ~ld_call.with_priority
                    \/ ld_call.fn = "load_all"

GroundOutput ==
    SelectSeq(loaded.table, LAMBDA r : r.label = Code("ground"))

\* The rows that load_addrm returned, likewise.
AddrmReturned == LoadReturned /\ ld_call.fn \in {"load_addrm", "load_all"}

AddrmOutput ==
    SelectSeq(loaded.table, LAMBDA r : r.label # Code("ground"))

\* Table t has exactly one row for every key of the table src, and a row
\* for no other key.
OneRowPerSourceKey(t, src, key) ==
    /\ \A i \in 1..Len(src) :
           Cardinality({ j \in 1..Len(t) : SameKey(t[j], src[i], key) }) = 1
    /\ \A j \in 1..Len(t) :
           \E i \in 1..Len(src) : SameKey(t[j], src[i], key)

\* Row i of the table src has the greatest priority of the rows of its key.
GreatestPriority(src, i) ==
    \A m \in 1..Len(src) :
        SameKey(src[m], src[i], GroundKey)
            => src[m].priority <= src[i].priority

\* Row i of the table src is the first of the rows of its key.
FirstOfKey(src, i) ==
    \A m \in 1..(i - 1) : ~SameKey(src[m], src[i], AddrmKey)

\* C16: a merge pipeline that returns has exactly one row for every key of
\* its concatenated sources and none for another key; the energy of the row
\* is, in load_ground without priorities, the energy of a source row of the
\* greatest priority for the key, and in load_addrm the energy of the first
\* source row of the key.
C16_OneRowPerKeyByPolicy ==
    /\ GroundReturned =>
           /\ OneRowPerSourceKey(GroundOutput, sources.ground.table,
                                 GroundKey)
           /\ \A j \in 1..Len(GroundOutput) :
                  \E i \in 1..Len(sources.ground.table) :
                      /\ SameKey(GroundOutput[j], sources.ground.table[i],
                                 GroundKey)
                      /\ GroundOutput[j].energy
                             = sources.ground.table[i].energy
                      /\ GreatestPriority(sources.ground.table, i)
    /\ AddrmReturned =>
           /\ OneRowPerSourceKey(AddrmOutput, sources.addrm.table, AddrmKey)
           /\ \A j \in 1..Len(AddrmOutput) :
                  \E i \in 1..Len(sources.addrm.table) :
                      /\ SameKey(AddrmOutput[j], sources.addrm.table[i],
                                 AddrmKey)
                      /\ AddrmOutput[j].energy
                             = sources.addrm.table[i].energy
                      /\ FirstOfKey(sources.addrm.table, i)

\* load_all returned where, for one key each, the sources of load_ground
\* held energies that differ at two priorities and the sources of
\* load_addrm held energies that differ in two source tables.
C16_Witness ==
    /\ LoadReturned
    /\ ld_call.fn = "load_all"
    /\ \E i, m \in 1..Len(sources.ground.table) :
           /\ SameKey(sources.ground.table[m], sources.ground.table[i],
                      GroundKey)
           /\ sources.ground.table[m].priority
                  < sources.ground.table[i].priority
           /\ sources.ground.table[m].energy
                  # sources.ground.table[i].energy
    /\ \E i, m \in 1..Len(sources.addrm.table) :
           /\ i < m
           /\ SameKey(sources.addrm.table[m], sources.addrm.table[i],
                      AddrmKey)
           /\ sources.addrm.table[m].energy # sources.addrm.table[i].energy


(***************************************************************************)
(* The state index: an index decoded and encoded again, and a state        *)
(* <<n, ml, tms>> encoded and decoded again.                               *)
(***************************************************************************)
MaxIndex == 60

MaxN == 2

MaxMl == 3

\* Shells so large that a double no longer tells the root of 4 p + 1 for
\* the last index of the shell from the root for the first of the next.
LargeShells == { 83502582, 83886080 }

Indices ==
    { Limbs(v) : v \in 0..MaxIndex }
        \cup { Sub(Mul(Limbs(k), Limbs(k + 1)), <<1>>) : k \in LargeShells }
        \cup { Mul(Limbs(k), Limbs(k + 1)) : k \in LargeShells }

States ==
    { <<n, ml, tms>> : n \in 0..MaxN, ml \in (0 - MaxMl)..MaxMl,
                       tms \in {0 - 1, 1} }
        \cup { <<0, k - 1, 0 - 1>> : k \in LargeShells }

IndexInit ==
    /\ ix_pc = "start"
    /\ \/ ix_from = "p" /\ ix_p \in Indices /\ ix_t = <<>>
       \/ ix_from = "n_ml_tms" /\ ix_p = <<>> /\ ix_t \in States
    /\ ix_back = NoBack

\* p_to_n_ml_tms(p)
DecodeFirst ==
    /\ ix_pc = "start"
    /\ ix_from = "p"
    /\ \E root \in pow_half(Add(MulDigit(ix_p, 4), <<1>>)) :
           ix_t' = p_to_n_ml_tms(ix_p, root)
    /\ ix_pc' = "decoded"
    /\ UNCHANGED <<ix_from, ix_p, ix_back>>
    /\ UNCHANGED <<cacheVars, fdVars, depVars, loadVars>>

\* n_ml_tms_to_p(*p_to_n_ml_tms(p))
EncodeSecond ==
    /\ ix_pc = "decoded"
    /\ LET r == n_ml_tms_to_p(ix_t[1], ix_t[2], ix_t[3])
       IN  ix_back' = [ exc |-> r.exc, p |-> r.p, t |-> <<>> ]
    /\ ix_pc' = "done"
    /\ UNCHANGED <<ix_from, ix_p, ix_t>>
    /\ UNCHANGED <<cacheVars, fdVars, depVars, loadVars>>

\* n_ml_tms_to_p(n, ml, tms)
EncodeFirst ==
    /\ ix_pc = "start"
    /\ ix_from = "n_ml_tms"
    /\ ix_p' = n_ml_tms_to_p(ix_t[1], ix_t[2], ix_t[3]).p
    /\ ix_pc' = "encoded"
    /\ UNCHANGED <<ix_from, ix_t, ix_back>>
    /\ UNCHANGED <<cacheVars, fdVars, depVars, loadVars>>

\* p_to_n_ml_tms(n_ml_tms_to_p(n, ml, tms))
DecodeSecond ==
    /\ ix_pc = "encoded"
    /\ \E root \in pow_half(Add(MulDigit(ix_p, 4), <<1>>)) :
           ix_back' = [ exc |-> "none", p |-> <<>>,
                        t |-> p_to_n_ml_tms(ix_p, root) ]
    /\ ix_pc' = "done"
    /\ UNCHANGED <<ix_from, ix_p, ix_t>>
    /\ UNCHANGED <<cacheVars, fdVars, depVars, loadVars>>

IndexNext ==
    \/ DecodeFirst
    \/ EncodeSecond
    \/ EncodeFirst
    \/ DecodeSecond

InitIndex ==
    CacheUnused /\ FDUnused /\ DepsUnused /\ LoadUnused /\ IndexInit

SpecIndex == InitIndex /\ [][IndexNext]_vars

\* C20: an index p >= 0 decodes to n >= 0 and tms of -1 or 1 and these
\* encode to p again, and n >= 0, ml and tms of -1 or 1 encode to an index
\* that decodes to them again.
C20_Original ==
    /\ ix_from = "p" /\ ix_pc \in {"decoded", "done"} =>
           ix_t[1] >= 0 /\ ix_t[3] \in {0 - 1, 1}
    /\ ix_from = "p" /\ ix_pc = "done" =>
           ix_back.exc = "none" /\ ix_back.p = ix_p
    /\ ix_from = "n_ml_tms" /\ ix_pc = "done" => ix_back.t = ix_t

====
